---- MODULE Spec2Model ----
(***************************************************************************)
(* Model of rn_scraper (src/main.py): the page fetcher with its bounded    *)
(* retry, the page sequencer (a generator), the row normaliser, the        *)
(* existing-row filter, the upsert, and the driver loop of main.           *)
(*                                                                         *)
(* Python values are modelled as follows.  A string is a TLA+ string; None *)
(* is the string None.  A JSON value of a record field is tagged with its  *)
(* type (a string, null, or a dict holding "value").  A page payload is a  *)
(* record telling whether "totalPages" is present and what "content" is.   *)
(***************************************************************************)
EXTENDS Integers, Sequences, FiniteSets

VARIABLES
    upstream,      \* what the API serves: partition key -> pages by index
    prefixes,      \* the list of partition keys, in processing order
    pi,            \* position in prefixes of the partition being processed
    pc,            \* control point of the program
    page_number,   \* iterate_pages_for_prefix: page index
    attempt,       \* fetch_page: loop index
    status,        \* status code of the last response
    requests,      \* requests issued by the current fetch_page call
    waits,         \* backoff waits (seconds) slept by the current call
    data,          \* result of the last fetch_page call
    emitted,       \* page indices yielded for the current partition
    rows,          \* main: rows of the page being processed
    rows_insert,   \* main: the rows filter_existing_rows returned
    total,         \* main: running count of inserted rows
    store,         \* table rn_licenses: the committed rows
    writes,        \* license_number -> INSERT statements committed this run
    run,           \* number of the execution of main (1, 2, ...)
    ref,           \* store at the end of the first execution
    atKill,        \* store at the moment the process was killed
    firstPages,    \* partition keys whose page 0 the first execution processed
    fetchFailed,   \* some fetch_page call returned None
    statements     \* SQL statements sent to the table for the page in hand

vars == <<upstream, prefixes, pi, pc, page_number, attempt, status, requests,
          waits, data, emitted, rows, rows_insert, total, store, writes, run,
          ref, atKill, firstPages, fetchFailed, statements>>

-----------------------------------------------------------------------------
(* Bounds of the model *)

\* pages the upstream holds over all partition keys, in the pipeline model
MaxTotalPages == 3
\* pages of a partition in the paging model; the last one stands for every
\* later page index as well
PagingLen == 3
\* executions of main in a row
MaxRuns == 2

(* Program constants *)

\* range(5) in fetch_page
MaxAttempts == 5
\* wait = 2 * (attempt + 1)
BackoffUnit == 2

None == "<None>"

Transient == {408, 429, 500, 502, 503, 504}
\* the statuses the modelled server answers with
Statuses == {200, 404, 429, 503}

-----------------------------------------------------------------------------
(* JSON values and the row normaliser *)

\* a JSON string, a JSON null, and the wrapper {"value": s}
JStr(s) == [type |-> "str", self |-> s, get_value |-> None]
JNull == [type |-> "null", self |-> None, get_value |-> None]
JDict(s) == [type |-> "dict", self |-> None, get_value |-> s]

\* a Python string or None, seen again as a value v() may be given
Scalar(s) == IF s = None THEN JNull ELSE JStr(s)

\* v(x): unwrap one level
v(x) == IF x.type = "dict" THEN x.get_value ELSE x.self

\* Python truthiness of a string or None
Truthy(s) == s # None /\ s # ""

\* str.lower on the strings that occur as dates
Lower(s) ==
    CASE s = "Not on File" -> "not on file"
      [] s = "NULL" -> "null"
      [] OTHER -> s

\* datetime.strptime(s, "%B %d, %Y").date(); "error" stands for ValueError
Strptime(s) ==
    CASE s = "January 5, 2020" -> "2020-01-05"
      [] s = "March 14, 2019" -> "2019-03-14"
      [] OTHER -> "error"

\* variant: a date strptime rejects is stored as None
clean_date_Defaults(val) ==
    LET x == v(val)
    IN  IF ~Truthy(x) \/ Lower(x) \in {"null", "not on file"}
        THEN None
        ELSE IF Strptime(x) = "error" THEN None ELSE Strptime(x)

clean_date(val) ==
    LET x == v(val)
    IN  IF ~Truthy(x) \/ Lower(x) \in {"null", "not on file"}
        THEN None
        ELSE Strptime(x)

\* " ".join(part for part in parts if part)
JoinParts(parts) ==
    LET kept == SelectSeq(parts, Truthy)
    IN  IF Len(kept) = 0 THEN ""
        ELSE IF Len(kept) = 1 THEN kept[1]
        ELSE kept[1] \o " " \o kept[2]

\* a or b, on strings and None
Or(a, b) == IF Truthy(a) THEN a ELSE b

ExtractRow(r) ==
    [license_number |-> v(r.licenseNumber),
     name |-> v(r.name),
     profession |-> v(r.profession),
     address |-> Or(Or(v(r.address), JoinParts(<<v(r.city), v(r.state)>>)), None),
     date_of_licensure |-> clean_date(Scalar(v(r.dateOfLicensure)))]

-----------------------------------------------------------------------------
(* What the API serves *)

\* a page payload: is "totalPages" there and what is it; is "content" absent,
\* null or a list, and its items
Page(hasTotal, totalPages, content, items) ==
    [hasTotal |-> hasTotal, totalPages |-> totalPages, content |-> content,
     items |-> items]

\* fetch_page returned None
NoData == Page(FALSE, 0, "none", <<>>)

RawRecord(lic, name, address, city, state, date) ==
    [licenseNumber |-> lic, name |-> name, profession |-> JStr("RN"),
     address |-> address, city |-> city, state |-> state,
     dateOfLicensure |-> date]

\* the records the modelled API holds, by a short name; a page lists names
Record(id) ==
    CASE id = "rec1" ->
           RawRecord(JStr("L1"), JStr("x"), JStr("12 Elm St"), JStr("Albany"),
                     JStr("NY"), JStr("January 5, 2020"))
      \* the same license under another name, every field wrapped
      [] id = "rec1y" ->
           RawRecord(JDict("L1"), JDict("y"), JNull, JDict("Albany"),
                     JDict("NY"), JDict("Not on File"))
      [] id = "rec2" ->
           RawRecord(JStr("L2"), JStr("z"), JNull, JNull, JNull, JStr(""))
      \* no license number
      [] id = "recN" ->
           RawRecord(JNull, JStr("n"), JNull, JNull, JStr("NY"),
                     JStr("March 14, 2019"))
      \* a date that is not "%B %d, %Y"
      [] id = "recB" ->
           RawRecord(JStr("L3"), JStr("b"), JNull, JStr("Troy"), JNull,
                     JStr("13/45/2020"))

\* extract_rows(page_data) when it returns
extract_rows(page) ==
    IF page.content = "absent" THEN <<>>
    ELSE [i \in 1..Len(page.items) |-> ExtractRow(Record(page.items[i]))]

\* extract_rows raises: iterating None, or a date strptime rejects
ExtractRaises(page) ==
    \/ page.content = "null"
    \/ /\ page.content = "list"
       /\ \E i \in 1..Len(page.items) :
              clean_date(Scalar(v(Record(page.items[i]).dateOfLicensure))) = "error"

Licenses == {"L1", "L2", "L3"}

\* the content lists of the pipeline model: a record, the same license under
\* another name beside a new one, a record listed twice, a record without
\* license number, a record with a malformed date
Contents ==
    { <<"rec1">>, <<"rec1y", "rec2">>, <<"rec2", "rec2">>, <<"rec2", "recN">>,
      <<"rec2", "recB">> }

Prefixes == {"A", "B"}

\* sequences over S of length n
SeqOfLen(S, n) == [1..n -> S]

\* a partition of the pipeline model: every page declares totalPages, or none
\* does and an empty page follows the last one
Listing(cs, declared) ==
    IF declared
    THEN [i \in 1..Len(cs) |-> Page(TRUE, Len(cs), "list", cs[i])]
    ELSE [i \in 1..Len(cs) |-> Page(FALSE, 0, "list", cs[i])]
             \o << Page(FALSE, 0, "list", <<>>) >>

PipelineUpstreams ==
    { [p \in Prefixes |-> Listing(IF p = "A" THEN a ELSE b, d)] :
        <<a, b, d>> \in
          UNION { SeqOfLen(Contents, n) \X SeqOfLen(Contents, m) \X BOOLEAN :
                    <<n, m>> \in { x \in (1..MaxTotalPages) \X (1..MaxTotalPages) :
                                     x[1] + x[2] <= MaxTotalPages } } }

\* the paging model looks only at the shape of a page
PageShapes(hasTotal, totalPages) ==
    { Page(hasTotal, totalPages, c[1], c[2]) :
        c \in { <<"absent", <<>> >>, <<"null", <<>> >>, <<"list", <<>> >>,
                <<"list", <<"rec1">> >> } }

\* every page declares the same totalPages, or no page declares one
PagingListings ==
    SeqOfLen(PageShapes(FALSE, 0), PagingLen)
      \cup UNION { SeqOfLen(PageShapes(TRUE, t), PagingLen) : t \in 1..PagingLen }

PagingUpstreams == { [p \in Prefixes |-> l] : l \in PagingListings }

-----------------------------------------------------------------------------
(* The state *)

prefix == prefixes[pi]
\* the payload the API returns for the page requested
ApiPage == upstream[prefix][page_number + 1]

NoWrites == [l \in Licenses |-> 0]

InitProgram ==
    /\ pi = 1
    /\ pc = "fetch"
    /\ page_number = 0
    /\ attempt = 0
    /\ status = 0
    /\ requests = 0
    /\ waits = <<>>
    /\ data = NoData
    /\ emitted = <<>>
    /\ rows = <<>>
    /\ rows_insert = <<>>
    /\ total = 0
    /\ store = {}
    /\ writes = NoWrites
    /\ run = 1
    /\ ref = {}
    /\ atKill = {}
    /\ firstPages = {}
    /\ fetchFailed = FALSE
    /\ statements = <<>>

Init ==
    /\ upstream \in PipelineUpstreams
    /\ prefixes = <<"A", "B">>
    /\ InitProgram

\* the records a listing names
RecordsOf(l) == UNION { { l[i].items[j] : j \in 1..Len(l[i].items) } : i \in 1..Len(l) }

\* the upstream holds every license number with one set of values
Consistent(u) ==
    \A a, b \in UNION { RecordsOf(u[p]) : p \in Prefixes } :
        v(Record(a).licenseNumber) = v(Record(b).licenseNumber) => a = b

\* an upstream dataset without conflicting records
InitConsistent == Init /\ Consistent(upstream)

InitPages ==
    /\ upstream \in PagingUpstreams
    /\ prefixes = <<"A", "B">>
    /\ InitProgram

scenarioVars == <<upstream, prefixes, run, ref, atKill>>
mainVars == <<rows, rows_insert, total, store, writes, firstPages, statements>>

-----------------------------------------------------------------------------
(* fetch_page: one action per request *)

\* status 200: return response.json()
Get200 ==
    /\ pc = "fetch"
    /\ status' = 200
    /\ requests' = requests + 1
    /\ data' = ApiPage
    /\ pc' = "fetched"
    /\ UNCHANGED <<attempt, waits, fetchFailed, pi, page_number, emitted>>
    /\ UNCHANGED <<scenarioVars, mainVars>>

\* GetTransient with a loop of one attempt more
GetTransient_OneMore ==
    /\ pc = "fetch"
    /\ \E s \in Statuses \cap Transient : status' = s
    /\ requests' = requests + 1
    /\ waits' = Append(waits, BackoffUnit * (attempt + 1))
    /\ IF attempt + 1 < MaxAttempts + 1
       THEN /\ attempt' = attempt + 1
            /\ UNCHANGED <<pc, data, fetchFailed>>
       ELSE /\ data' = NoData
            /\ pc' = "fetched"
            /\ fetchFailed' = TRUE
            /\ UNCHANGED attempt
    /\ UNCHANGED <<pi, page_number, emitted>>
    /\ UNCHANGED <<scenarioVars, mainVars>>

\* variant: the same wait after every failed attempt
GetTransient_FixedWait ==
    /\ pc = "fetch"
    /\ \E s \in Statuses \cap Transient : status' = s
    /\ requests' = requests + 1
    /\ waits' = Append(waits, BackoffUnit)
    /\ IF attempt + 1 < MaxAttempts
       THEN /\ attempt' = attempt + 1
            /\ UNCHANGED <<pc, data, fetchFailed>>
       ELSE /\ data' = NoData
            /\ pc' = "fetched"
            /\ fetchFailed' = TRUE
            /\ UNCHANGED attempt
    /\ UNCHANGED <<pi, page_number, emitted>>
    /\ UNCHANGED <<scenarioVars, mainVars>>

\* a transient status: sleep 2 * (attempt + 1), then the next attempt, or
\* "failed after retries" when the loop is over
GetTransient ==
    /\ pc = "fetch"
    /\ \E s \in Statuses \cap Transient : status' = s
    /\ requests' = requests + 1
    /\ waits' = Append(waits, BackoffUnit * (attempt + 1))
    /\ IF attempt + 1 < MaxAttempts
       THEN /\ attempt' = attempt + 1
            /\ UNCHANGED <<pc, data, fetchFailed>>
       ELSE /\ data' = NoData
            /\ pc' = "fetched"
            /\ fetchFailed' = TRUE
            /\ UNCHANGED attempt
    /\ UNCHANGED <<pi, page_number, emitted>>
    /\ UNCHANGED <<scenarioVars, mainVars>>

\* GetOther retrying like a transient status, as long as attempts are left
GetOther_Retried ==
    /\ pc = "fetch"
    /\ \E s \in Statuses \ (Transient \cup {200}) : status' = s
    /\ requests' = requests + 1
    /\ IF attempt + 1 < MaxAttempts
       THEN /\ attempt' = attempt + 1
            /\ waits' = Append(waits, BackoffUnit * (attempt + 1))
            /\ UNCHANGED <<pc, data, fetchFailed>>
       ELSE /\ data' = NoData
            /\ pc' = "fetched"
            /\ fetchFailed' = TRUE
            /\ UNCHANGED <<attempt, waits>>
    /\ UNCHANGED <<pi, page_number, emitted>>
    /\ UNCHANGED <<scenarioVars, mainVars>>

\* any other status: print the error and return None
GetOther ==
    /\ pc = "fetch"
    /\ \E s \in Statuses \ (Transient \cup {200}) : status' = s
    /\ requests' = requests + 1
    /\ data' = NoData
    /\ pc' = "fetched"
    /\ fetchFailed' = TRUE
    /\ UNCHANGED <<attempt, waits, pi, page_number, emitted>>
    /\ UNCHANGED <<scenarioVars, mainVars>>

Fetch == Get200 \/ GetTransient \/ GetOther

-----------------------------------------------------------------------------
(* iterate_pages_for_prefix: the generator *)

\* a new fetch_page call starts
NewCall ==
    /\ attempt' = 0
    /\ status' = 0
    /\ requests' = 0
    /\ waits' = <<>>

\* variant: the fetch error is raised instead of ending the page loop
GenFetchError_Raises ==
    /\ pc = "fetched"
    /\ data = NoData
    /\ pc' = "crashed"
    /\ UNCHANGED <<attempt, status, requests, waits, data, fetchFailed, pi,
                   page_number, emitted>>
    /\ UNCHANGED <<scenarioVars, mainVars>>

\* data is None: "Skipping due to fetch error", break
GenFetchError ==
    /\ pc = "fetched"
    /\ data = NoData
    /\ pc' = "exhausted"
    /\ UNCHANGED <<attempt, status, requests, waits, data, fetchFailed, pi,
                   page_number, emitted>>
    /\ UNCHANGED <<scenarioVars, mainVars>>

\* yield data: control passes to the body of the consumer's for loop
GenYield ==
    /\ pc = "fetched"
    /\ data # NoData
    /\ emitted' = IF Len(emitted) <= Len(upstream[prefix])
                  THEN Append(emitted, page_number) ELSE emitted
    /\ pc' = "consume"
    /\ NewCall
    /\ UNCHANGED <<data, fetchFailed, pi, page_number>>
    /\ UNCHANGED <<scenarioVars, mainVars>>

\* data.get("content", [])
ContentItems(page) == IF page.content = "list" THEN page.items ELSE <<>>

\* variant: "if not items" in place of "items is not None and len(items) == 0"
StopsAfter_NotItems(page, n) ==
    IF page.hasTotal
    THEN n >= page.totalPages - 1
    ELSE Len(ContentItems(page)) = 0

\* StopsAfter comparing with total_pages instead of total_pages - 1
StopsAfter_OffByOne(page, n) ==
    IF page.hasTotal
    THEN n >= page.totalPages
    ELSE page.content # "null" /\ Len(ContentItems(page)) = 0

\* StopsAfter stopping on a page that is not full instead of an empty one
StopsAfter_ShortPage(page, n) ==
    IF page.hasTotal
    THEN n >= page.totalPages - 1
    ELSE page.content # "null" /\ Len(ContentItems(page)) <= 1

\* the break conditions of lines 75-84
StopsAfter(page, n) ==
    IF page.hasTotal
    THEN n >= page.totalPages - 1
    ELSE page.content # "null" /\ Len(ContentItems(page)) = 0

\* page indices from the last page of the listing on are served alike
NextIndex(n) == IF n + 1 < Len(upstream[prefix]) THEN n + 1 ELSE n

\* resumed after the yield: sleep, then break
GenStop ==
    /\ pc = "resume"
    /\ StopsAfter(data, page_number)
    /\ pc' = "exhausted"
    /\ UNCHANGED <<attempt, status, requests, waits, data, fetchFailed, pi,
                   page_number, emitted>>
    /\ UNCHANGED <<scenarioVars, mainVars>>

\* resumed after the yield: sleep, then page_number += 1 and fetch again
GenNextPage ==
    /\ pc = "resume"
    /\ ~StopsAfter(data, page_number)
    /\ page_number' = NextIndex(page_number)
    /\ pc' = "fetch"
    /\ UNCHANGED <<attempt, status, requests, waits, data, fetchFailed, pi,
                   emitted>>
    /\ UNCHANGED <<scenarioVars, mainVars>>

Generator == GenFetchError \/ GenYield \/ GenStop \/ GenNextPage

-----------------------------------------------------------------------------
(* the for loop over prefixes, in main and in iterate_all_prefixes *)

\* the page loop is over and another prefix is left
NextPrefix ==
    /\ pc \in {"exhausted", "broke"}
    /\ pi < Len(prefixes)
    /\ pi' = pi + 1
    /\ page_number' = 0
    /\ emitted' = <<>>
    /\ data' = NoData
    /\ rows' = <<>>
    /\ rows_insert' = <<>>
    /\ statements' = <<>>
    /\ NewCall
    /\ pc' = "fetch"
    /\ UNCHANGED <<fetchFailed, total, store, writes, firstPages>>
    /\ UNCHANGED scenarioVars

\* the page loop of the last prefix is over
Finish ==
    /\ pc \in {"exhausted", "broke"}
    /\ pi = Len(prefixes)
    /\ pc' = "done"
    /\ UNCHANGED <<attempt, status, requests, waits, data, fetchFailed, pi,
                   page_number, emitted>>
    /\ UNCHANGED <<scenarioVars, mainVars>>

\* iterate_all_prefixes: yield prefix, page_data; its consumer takes the pair
\* and asks for the next one
AllYield ==
    /\ pc = "consume"
    /\ pc' = "resume"
    /\ UNCHANGED <<attempt, status, requests, waits, data, fetchFailed, pi,
                   page_number, emitted>>
    /\ UNCHANGED <<scenarioVars, mainVars>>

NextPages == Fetch \/ Generator \/ AllYield \/ NextPrefix \/ Finish

SpecPages == InitPages /\ [][NextPages]_vars

\* the interpreter keeps running the program while it has a step to take
SpecPagesFair == SpecPages /\ WF_vars(NextPages)

-----------------------------------------------------------------------------
(* The store: filter_existing_rows and insert_rows *)

\* SELECT license_number ... WHERE license_number = ANY(license_numbers)
ExistingLicenseNumbers(st, rs) ==
    { r.license_number : r \in st } \cap
        { rs[i].license_number : i \in { j \in 1..Len(rs) : rs[j].license_number # None } }

\* filter_existing_rows without its filter: every row counts as new
filter_existing_rows_KeepsAll(st, rs) == rs

\* new_rows: the rows whose license_number the table does not hold
filter_existing_rows(st, rs) ==
    LET IsNew(r) == r.license_number \notin ExistingLicenseNumbers(st, rs)
    IN  SelectSeq(rs, IsNew)

\* variant: the table is emptied before the row is inserted
Upsert_Refresh(st, r) == {r}

\* variant: ON CONFLICT (license_number) DO NOTHING
Upsert_DoNothing(st, r) ==
    IF \E x \in st : x.license_number = r.license_number THEN st
    ELSE st \cup {r}

\* INSERT ... ON CONFLICT (license_number) DO UPDATE SET the other columns
Upsert(st, r) ==
    { x \in st : x.license_number # r.license_number } \cup {r}

RECURSIVE insert_rows(_, _)
\* the table after every row of the batch was executed and committed
insert_rows(st, rs) ==
    IF rs = <<>> THEN st
    ELSE insert_rows(Upsert(st, Head(rs)), Tail(rs))

\* the PRIMARY KEY column rejects NULL: the execute raises
InsertRaises(rs) == \E i \in 1..Len(rs) : rs[i].license_number = None

\* the INSERT statements a batch executes, per license_number
Executed(rs) ==
    [l \in Licenses |->
        Cardinality({ i \in 1..Len(rs) : rs[i].license_number = l })]

\* the INSERT statements of a batch that reach the table: every row up to
\* and including the first one the table rejects
Sent(rs) ==
    LET bad == { i \in 1..Len(rs) : rs[i].license_number = None }
        n == IF bad = {} THEN Len(rs)
             ELSE CHOOSE i \in bad : \A j \in bad : i <= j
    IN  [i \in 1..n |-> "INSERT"]

-----------------------------------------------------------------------------
(* main: the body of the page loop *)

\* page 0 of the partition got through filter and insert in the first run
NoteFirstPage ==
    firstPages' = IF run = 1 /\ page_number = 0
                  THEN firstPages \cup {prefix} ELSE firstPages

\* rows = extract_rows(page); an exception leaves main
MainExtract ==
    /\ pc = "consume"
    /\ IF ExtractRaises(data)
       THEN pc' = "crashed" /\ UNCHANGED rows
       ELSE pc' = "filter" /\ rows' = extract_rows(data)
    /\ statements' = <<>>
    /\ UNCHANGED <<attempt, status, requests, waits, data, fetchFailed, pi,
                   page_number, emitted>>
    /\ UNCHANGED <<rows_insert, total, store, writes, firstPages>>
    /\ UNCHANGED scenarioVars

\* variant: "continue" in place of "break" when nothing on the page is new
MainFilter_Continues ==
    /\ pc = "filter"
    /\ rows_insert' = filter_existing_rows(store, rows)
    /\ statements' = Append(statements, "SELECT")
    /\ IF rows_insert' = <<>>
       THEN pc' = "resume" /\ NoteFirstPage
       ELSE pc' = "insert" /\ UNCHANGED firstPages
    /\ UNCHANGED <<attempt, status, requests, waits, data, fetchFailed, pi,
                   page_number, emitted>>
    /\ UNCHANGED <<rows, total, store, writes>>
    /\ UNCHANGED scenarioVars

\* rows_insert = filter_existing_rows(conn, rows); break when it is empty
MainFilter ==
    /\ pc = "filter"
    /\ rows_insert' = filter_existing_rows(store, rows)
    /\ statements' = Append(statements, "SELECT")
    /\ IF rows_insert' = <<>>
       THEN pc' = "broke" /\ NoteFirstPage
       ELSE pc' = "insert" /\ UNCHANGED firstPages
    /\ UNCHANGED <<attempt, status, requests, waits, data, fetchFailed, pi,
                   page_number, emitted>>
    /\ UNCHANGED <<rows, total, store, writes>>
    /\ UNCHANGED scenarioVars

\* variant: every INSERT is committed on its own (autocommit)
MainInsert_Autocommit ==
    /\ pc = "insert"
    /\ IF InsertRaises(rows_insert)
       THEN /\ pc' = "crashed"
            /\ statements' = statements \o Sent(rows_insert)
            /\ store' = insert_rows(store,
                   SubSeq(rows_insert, 1, Len(Sent(rows_insert)) - 1))
            /\ UNCHANGED <<writes, total, firstPages>>
       ELSE /\ store' = insert_rows(store, rows_insert)
            /\ statements' = statements \o Sent(rows_insert) \o <<"COMMIT">>
            /\ writes' = [l \in Licenses |-> writes[l] + Executed(rows_insert)[l]]
            /\ total' = total + Len(rows_insert)
            /\ NoteFirstPage
            /\ pc' = "resume"
    /\ UNCHANGED <<attempt, status, requests, waits, data, fetchFailed, pi,
                   page_number, emitted>>
    /\ UNCHANGED <<rows, rows_insert>>
    /\ UNCHANGED scenarioVars

\* insert_rows(conn, rows_insert); total += len(rows_insert)
MainInsert ==
    /\ pc = "insert"
    /\ IF InsertRaises(rows_insert)
       THEN /\ pc' = "crashed"
            /\ statements' = statements \o Sent(rows_insert)
            /\ UNCHANGED <<store, writes, total, firstPages>>
       ELSE /\ store' = insert_rows(store, rows_insert)
            /\ statements' = statements \o Sent(rows_insert) \o <<"COMMIT">>
            /\ writes' = [l \in Licenses |-> writes[l] + Executed(rows_insert)[l]]
            /\ total' = total + Len(rows_insert)
            /\ NoteFirstPage
            /\ pc' = "resume"
    /\ UNCHANGED <<attempt, status, requests, waits, data, fetchFailed, pi,
                   page_number, emitted>>
    /\ UNCHANGED <<rows, rows_insert>>
    /\ UNCHANGED scenarioVars

Main == MainExtract \/ MainFilter \/ MainInsert

Program == Fetch \/ Generator \/ Main \/ NextPrefix \/ Finish

-----------------------------------------------------------------------------
(* Executions of main one after another *)

\* main starts: total = 0, the first prefix, page 0
StartMain ==
    /\ pi' = 1
    /\ pc' = "fetch"
    /\ page_number' = 0
    /\ NewCall
    /\ data' = NoData
    /\ emitted' = <<>>
    /\ rows' = <<>>
    /\ rows_insert' = <<>>
    /\ total' = 0
    /\ writes' = NoWrites
    /\ statements' = <<>>

\* main is run again on the table the run before left
Rerun ==
    /\ pc \in {"done", "crashed"}
    /\ run < MaxRuns
    /\ run' = run + 1
    /\ ref' = IF run = 1 THEN store ELSE ref
    /\ StartMain
    /\ UNCHANGED <<upstream, prefixes, store, atKill, firstPages, fetchFailed>>

Next == Program \/ Rerun

Spec == Init /\ [][Next]_vars

\* the orders the partition keys can be processed in
Orders == { o \in SeqOfLen(Prefixes, Cardinality(Prefixes)) :
              \A p \in Prefixes : \E i \in DOMAIN o : o[i] = p }

\* a second, independent execution: an empty table again, the partition keys
\* in another order
RunReordered ==
    /\ pc = "done"
    /\ run = 1
    /\ run' = 2
    /\ ref' = store
    /\ store' = {}
    /\ prefixes' \in Orders \ {prefixes}
    /\ StartMain
    /\ UNCHANGED <<upstream, atKill, firstPages, fetchFailed>>

NextOrder == Program \/ RunReordered

SpecOrder == InitConsistent /\ [][NextOrder]_vars

\* a second, independent execution on an empty table, the one that is killed
RunAgain ==
    /\ pc = "done"
    /\ run = 1
    /\ run' = 2
    /\ ref' = store
    /\ store' = {}
    /\ StartMain
    /\ UNCHANGED <<upstream, prefixes, atKill, firstPages, fetchFailed>>

\* the process is killed: what was committed stays, the rest is lost
Kill ==
    /\ run = 2
    /\ pc \notin {"done", "crashed", "killed"}
    /\ pc' = "killed"
    /\ atKill' = store
    /\ UNCHANGED <<attempt, status, requests, waits, data, fetchFailed, pi,
                   page_number, emitted>>
    /\ UNCHANGED <<upstream, prefixes, run, ref, mainVars>>

\* main is started again from the beginning on the table the kill left
Restart ==
    /\ pc = "killed"
    /\ run' = 3
    /\ StartMain
    /\ UNCHANGED <<upstream, prefixes, ref, store, atKill, firstPages,
                   fetchFailed>>

NextKill == Program \/ RunAgain \/ Kill \/ Restart

SpecKill == InitConsistent /\ [][NextKill]_vars

-----------------------------------------------------------------------------
(* insert_rows on any table and any batch *)

\* the rows extract_rows can produce from the catalogue of records
CatalogueRows == { ExtractRow(Record(id)) : id \in {"rec1", "rec1y", "rec2", "recN"} }

\* the tables rn_licenses can hold: license_number is the primary key
Tables ==
    { t \in SUBSET CatalogueRows :
        /\ \A x \in t : x.license_number # None
        /\ \A x, y \in t : x.license_number = y.license_number => x = y }

\* the batches insert_rows is called with
Batches == SeqOfLen(CatalogueRows, 1) \cup SeqOfLen(CatalogueRows, 2)

\* main is about to call insert_rows; ref remembers the table before the call
InitInsert ==
    /\ upstream = [p \in Prefixes |-> Listing(<< <<"rec1">> >>, TRUE)]
    /\ prefixes = <<"A", "B">>
    /\ pi = 1
    /\ pc = "insert"
    /\ page_number = 0
    /\ attempt = 0
    /\ status = 200
    /\ requests = 1
    /\ waits = <<>>
    /\ data = upstream["A"][1]
    /\ emitted = <<0>>
    /\ rows_insert \in Batches
    /\ rows = rows_insert
    /\ total = 0
    /\ store \in Tables
    /\ ref = store
    /\ writes = NoWrites
    /\ run = 1
    /\ atKill = {}
    /\ firstPages = {}
    /\ fetchFailed = FALSE
    /\ statements = <<"SELECT">>

NextInsert == MainInsert

SpecInsert == InitInsert /\ [][NextInsert]_vars

-----------------------------------------------------------------------------
(* Claims about the pipeline of main *)

\* the row of the page that was processed last for its license_number
IsLatestOnPage(i) ==
    /\ rows[i].license_number # None
    /\ \A j \in (i + 1)..Len(rows) :
           rows[j].license_number # rows[i].license_number

\* C1: once main has put a page through filter_existing_rows and insert_rows,
\* the table holds, for every license_number of the page, the values of the
\* row processed last, also when the license_number was stored before with
\* other values.
C1_LatestValuesStored ==
    pc \in {"resume", "broke"} =>
        \A i \in 1..Len(rows) : IsLatestOnPage(i) => rows[i] \in store

\* C2: during and after the second execution of main the table is what the
\* first execution left.
C2_SecondRunLeavesStore == run = 2 => store = ref

\* C2, amended: the second execution changes no row the first one left, and
\* as long as it has only come to partition keys whose page 0 the first
\* execution put through filter and insert, the table is what the first
\* execution left; so it is at its end when that holds of every key.
C2_SecondRunAddsOnlyUnprocessed ==
    run = 2 =>
        /\ ref \subseteq store
        /\ (\A i \in 1..pi : prefixes[i] \in firstPages) => store = ref

\* the second execution ended after the first had processed page 0 of every
\* partition key and stored rows
C2_Witness ==
    /\ run = 2
    /\ pc = "done"
    /\ firstPages = Prefixes
    /\ Cardinality(store) = 2
    /\ store = ref
    /\ ~fetchFailed

\* C3: within one execution of main no license_number is written twice.
C3_WrittenAtMostOnce == \A l \in Licenses : writes[l] <= 1

\* C4: the process was killed and main run again from the beginning, no fetch
\* having failed: the rows committed before the kill are in the table and the
\* table is the one an uninterrupted execution leaves.
C4_RestartCompletes ==
    (run = 3 /\ pc = "done" /\ ~fetchFailed) =>
        /\ atKill \subseteq store
        /\ store = ref

\* C5: with no fetch failing, the table at the end of main is the same for
\* both orders of the partition keys.
C5_OrderIndependent ==
    (run = 2 /\ pc = "done" /\ ~fetchFailed) => store = ref

-----------------------------------------------------------------------------
(* Claims about the page sequencer and the page fetcher *)

\* the page indices 0 .. n-1
UpTo(n) == [i \in 1..n |-> i - 1]

\* the generator of the current partition ended after a page it yielded
DrainedAfterPage == pc = "exhausted" /\ data # NoData

IsEmptyList(page) == page.content = "list" /\ page.items = <<>>
IsNonEmptyList(page) == page.content = "list" /\ page.items # <<>>

\* page k of the listing is its first empty one and the pages before it
\* are non-empty lists
FirstEmptyAt(l, k) ==
    /\ IsEmptyList(l[k])
    /\ \A j \in 1..(k - 1) : IsNonEmptyList(l[j])

\* C7: with no totalPages, a sequence that ends with no fetch failing has
\* yielded as many pages as there are non-empty pages before the first
\* empty one (2 for content sizes [100, 100, 0]).
C7_StopsBeforeEmptyPage ==
    (DrainedAfterPage /\ ~upstream[prefix][1].hasTotal) =>
        \A k \in 1..Len(upstream[prefix]) :
            FirstEmptyAt(upstream[prefix], k) => Len(emitted) = k - 1

\* C7, amended: the empty page is yielded as well; the pages yielded are the
\* non-empty ones before the first empty page and that page, in order
\* (3 pages, indices 0, 1, 2, for content sizes [100, 100, 0]).
C7_StopsAfterEmptyPage ==
    (DrainedAfterPage /\ ~upstream[prefix][1].hasTotal) =>
        \A k \in 1..Len(upstream[prefix]) :
            FirstEmptyAt(upstream[prefix], k) => emitted = UpTo(k)

\* content sizes [n, n, 0] with n > 0 and no totalPages: three pages yielded
C7_Witness ==
    /\ DrainedAfterPage
    /\ ~upstream[prefix][1].hasTotal
    /\ FirstEmptyAt(upstream[prefix], 3)
    /\ emitted = <<0, 1, 2>>

\* C8: whatever the API answers, the page sequence of a partition ends.
C8_SequenceEnds == (pc = "fetch") ~> (pc = "exhausted")

\* C9: a fetch_page call issues at most 5 requests; when its attempts all got
\* a transient status it has issued exactly 5, slept after each, and returns
\* None; and after a call returned None the generator ends the sequence, it
\* raises nothing.
C9_BoundedRetry ==
    /\ [](requests <= 5)
    /\ []((pc = "fetched" /\ status \in Transient) =>
              (requests = 5 /\ Len(waits) = 5 /\ data = NoData))
    /\ [][(pc = "fetched" /\ data = NoData) =>
              (pc' = "exhausted" /\ page_number' = page_number /\ pi' = pi)]_vars

\* five answers of 503 in a row, and the sequence of the partition has ended
C9_Witness ==
    /\ pc = "exhausted"
    /\ data = NoData
    /\ status = 503
    /\ requests = 5

NonRetryable == Statuses \ (Transient \cup {200})

\* C10: a request answered with a status that is neither 200 nor transient
\* ends the call at once with None: nothing is slept, and no request follows
\* in that call, on whichever attempt the status comes.
C10_NoRetryOnOtherStatus ==
    /\ [][(pc = "fetch" /\ status' \in NonRetryable) =>
              /\ pc' = "fetched"
              /\ data' = NoData
              /\ waits' = waits
              /\ requests' = requests + 1]_vars
    /\ [][(pc = "fetched" /\ status \in NonRetryable) =>
              (pc' = "exhausted" /\ requests' = requests /\ waits' = waits)]_vars

\* a 404 on the third attempt ended the call after two waits
C10_Witness ==
    /\ pc = "fetched"
    /\ status = 404
    /\ requests = 3
    /\ waits = <<2, 4>>
    /\ data = NoData

-----------------------------------------------------------------------------
(* Claims about failures and the table *)

\* C11: a fetch_page call that returns None ends the page loop of its
\* partition only: main is not left, the partition requests no further page
\* in this execution, and the next partition key, when there is one, starts
\* at page index 0 with a fresh fetch_page call.
C11_FetchFailureEndsPartitionOnly ==
    /\ [][(pc = "fetched" /\ data = NoData) =>
              (pc' = "exhausted" /\ pi' = pi /\ run' = run)]_vars
    /\ [][(pc = "exhausted" /\ run' = run) =>
              \/ pi = Len(prefixes) /\ pc' = "done"
              \/ /\ pi < Len(prefixes)
                 /\ pi' = pi + 1
                 /\ page_number' = 0
                 /\ requests' = 0
                 /\ pc' = "fetch"]_vars
    /\ [][run' = run => pi' >= pi]_vars
    /\ [](pc = "crashed" => data # NoData)

\* the second partition is writing its page 0 after the first one's fetch
\* failed
C11_Witness ==
    /\ run = 1
    /\ fetchFailed
    /\ pi = 2
    /\ page_number = 0
    /\ pc = "insert"

\* the row of the batch that is executed last for its license_number
IsLatestInBatch(i) ==
    \A j \in (i + 1)..Len(rows_insert) :
        rows_insert[j].license_number # rows_insert[i].license_number

\* C12: insert_rows is an upsert per license_number: after the call the table
\* holds for every license_number of the batch exactly the row executed last
\* for it, with all its values; every row of another license_number is as it
\* was; and a batch whose rows are all stored already with the same values
\* leaves the table as it was.
C12_UpsertPerIdentity ==
    pc = "resume" =>
        /\ \A i \in 1..Len(rows_insert) : IsLatestInBatch(i) =>
               /\ rows_insert[i] \in store
               /\ \A x \in store :
                      x.license_number = rows_insert[i].license_number
                          => x = rows_insert[i]
        /\ \A x \in ref :
               (\A i \in 1..Len(rows_insert) :
                    rows_insert[i].license_number # x.license_number)
                   => x \in store
        /\ \A x \in store :
               x \in ref \/ \E i \in 1..Len(rows_insert) : rows_insert[i] = x
        /\ (\A i \in 1..Len(rows_insert) : rows_insert[i] \in ref)
               => store = ref

\* a stored license_number was written with other values next to a row of
\* another license_number
C12_Witness ==
    /\ pc = "resume"
    /\ \E x \in ref : \E i \in 1..Len(rows_insert) :
           /\ x.license_number = rows_insert[i].license_number
           /\ x # rows_insert[i]
           /\ x.name # rows_insert[i].name
    /\ \E y \in ref :
           \A i \in 1..Len(rows_insert) :
               rows_insert[i].license_number # y.license_number

\* the license_numbers of a table
LicenseNumbers(st) == { x.license_number : x \in st }

\* C13: the table never holds two rows with the same license_number, and no
\* step of the pipeline takes a license_number out of the table: the set of
\* stored license_numbers only grows.
C13_OneRowPerLicense ==
    /\ [](\A x, y \in store : x.license_number = y.license_number => x = y)
    /\ [][LicenseNumbers(store) \subseteq LicenseNumbers(store')]_vars

\* a batch with the same license_number twice was written to a table that
\* held another license_number
C13_Witness ==
    /\ pc = "resume"
    /\ Len(rows_insert) = 2
    /\ rows_insert[1].license_number = rows_insert[2].license_number
    /\ Cardinality(store) = 2
    /\ Cardinality(LicenseNumbers(store)) = 2

\* C14: when the batch of a page holds no row, no statement is sent to the
\* table for that page: not the SELECT of filter_existing_rows, no INSERT
\* and no COMMIT of insert_rows.
C14_EmptyBatchNoStorageOperation ==
    (pc \in {"broke", "insert", "resume"} /\ rows = <<>>) => statements = <<>>

-----------------------------------------------------------------------------
(* Claims about the pages without "totalPages" *)

\* the "content" key is missing from the payload
IsAbsent(page) == page.content = "absent"

\* C15, as the specification states it: on a page without "totalPages" the
\* generator stops if and only if "content" is an empty list; when "content"
\* is null or missing it goes on to the next page index.
C15_StopsOnlyOnEmptyList ==
    [][(pc = "resume" /\ ~data.hasTotal) =>
          IF IsEmptyList(data)
          THEN pc' = "exhausted"
          ELSE pc' = "fetch" /\ page_number' = NextIndex(page_number)]_vars

\* C15, as the code has it: on a page without "totalPages" the generator
\* stops if and only if "content" is an empty list or is missing from the
\* payload; when "content" is null or a non-empty list it goes on to the
\* next page index of the same partition.
C15_StopsOnEmptyOrAbsent ==
    [][(pc = "resume" /\ ~data.hasTotal) =>
          IF IsEmptyList(data) \/ IsAbsent(data)
          THEN pc' = "exhausted" /\ page_number' = page_number
          ELSE /\ pc' = "fetch"
               /\ page_number' = NextIndex(page_number)
               /\ pi' = pi]_vars

\* page 0 had a null "content" and page 1, fetched after it, had none: the
\* sequence ended there
C15_Witness ==
    /\ pc = "exhausted"
    /\ ~fetchFailed
    /\ emitted = <<0, 1>>
    /\ ~data.hasTotal
    /\ IsAbsent(data)
    /\ upstream[prefix][1].content = "null"

-----------------------------------------------------------------------------
(* Claims about the page loop of main *)

\* every license_number of the page in hand is stored, or the page has no
\* record
NothingNew ==
    \A i \in 1..Len(rows) : rows[i].license_number \in LicenseNumbers(store)

\* C16: when nothing on a page is new (all its license_numbers are stored,
\* or it has no record) main leaves the page loop of that partition without
\* writing and goes on to the next prefix at page index 0, or ends after the
\* last prefix; otherwise the rows with a license_number not yet stored are
\* handed to insert_rows, and whenever a further page of the partition is
\* requested the rows of the page before it are in the table.
C16_BreakOnNothingNew ==
    /\ [][(pc = "filter" /\ NothingNew) =>
              (pc' = "broke" /\ store' = store /\ pi' = pi)]_vars
    /\ [][(pc = "broke" /\ run' = run) =>
              \/ pi = Len(prefixes) /\ pc' = "done"
              \/ /\ pi < Len(prefixes)
                 /\ pi' = pi + 1
                 /\ page_number' = 0
                 /\ pc' = "fetch"]_vars
    /\ [][(run' = run /\ pi' = pi /\ pc' = "fetch") =>
              pc \in {"fetch", "resume"}]_vars
    /\ [][(pc = "filter" /\ ~NothingNew) =>
              /\ pc' = "insert"
              /\ rows_insert' # <<>>
              /\ \A i \in 1..Len(rows) :
                     rows[i].license_number \notin LicenseNumbers(store)
                         <=> \E j \in 1..Len(rows_insert') :
                                 rows_insert'[j] = rows[i]]_vars
    /\ []((pc = "fetch" /\ emitted # <<>>) =>
              /\ rows_insert # <<>>
              /\ \A i \in 1..Len(rows_insert) :
                     IsLatestInBatch(i) => rows_insert[i] \in store
              /\ NothingNew)

\* the second execution finds page 0 of a partition stored already and
\* leaves the partition, whose listing has a further page
C16_Witness ==
    /\ run = 2
    /\ pc = "broke"
    /\ page_number = 0
    /\ rows # <<>>
    /\ total = 0
    /\ Len(upstream[prefix]) >= 2

\* C17: insert_rows either commits its whole batch or, when a statement is
\* rejected, raises once for the batch and leaves the table as it was before
\* the call: no row of the batch is stored, the rows executed before the
\* rejected one included.
C17_BatchAllOrNothing ==
    /\ [][pc = "insert" => pc' \in {"resume", "crashed"}]_vars
    /\ [][(pc = "insert" /\ pc' = "crashed") =>
              (store' = store /\ total' = total)]_vars
    /\ [][(pc = "insert" /\ pc' = "resume") =>
              \A i \in 1..Len(rows_insert) :
                  IsLatestInBatch(i) => rows_insert[i] \in store']_vars
    /\ []((pc = "crashed" /\ statements # <<>>) =>
              /\ \A k \in 1..Len(statements) : statements[k] # "COMMIT"
              /\ \A i \in 1..Len(rows_insert) : rows_insert[i] \notin store)

\* the second INSERT of a batch was rejected after the first was executed,
\* and the table is still empty
C17_Witness ==
    /\ pc = "crashed"
    /\ statements = <<"SELECT", "INSERT", "INSERT">>
    /\ rows_insert[1].license_number # None
    /\ store = {}

\* C18: extract_rows returns one row per record of the page, the records
\* without license number included, and those rows are taken out before the
\* write: insert_rows is never called with a row whose license_number is
\* null, so no write fails on such a page.
C18_NullIdentityFilteredOut ==
    /\ pc = "filter" => Len(rows) = Len(ContentItems(data))
    /\ pc \in {"insert", "crashed"} =>
           \A i \in 1..Len(rows_insert) : rows_insert[i].license_number # None

\* a date that is not empty, not a sentinel and not written as
\* "<month name> <day>, <year>"
MalformedDate(s) ==
    /\ s \notin {None, "", "null", "NULL", "Not on File", "not on file"}
    /\ s \notin {"January 5, 2020", "March 14, 2019"}

\* some record of the page has such a date
HasMalformedDate(page) ==
    /\ page.content = "list"
    /\ \E i \in 1..Len(page.items) :
           MalformedDate(v(Record(page.items[i]).dateOfLicensure))

\* C19: a page with a record whose date is not empty, not a sentinel and not
\* in the format makes extract_rows raise; nothing catches it, so main is
\* left without a statement sent to the table for that page and without any
\* of its rows written.
C19_MalformedDateFailsPage ==
    /\ [][(pc = "consume" /\ HasMalformedDate(data)) =>
              (pc' = "crashed" /\ store' = store /\ statements' = <<>>)]_vars
    /\ []((pc \in {"filter", "insert", "broke", "resume"}) =>
              ~HasMalformedDate(data))
    /\ []((pc = "crashed" /\ HasMalformedDate(data)) => statements = <<>>)

\* main was left on a page that lists a valid record before the one with the
\* malformed date; the table is empty
C19_Witness ==
    /\ pc = "crashed"
    /\ HasMalformedDate(data)
    /\ data.items[1] = "rec2"
    /\ store = {}

-----------------------------------------------------------------------------
(* Claims about the backoff of fetch_page *)

\* C20: within one fetch_page call the wait slept after the failed attempt
\* i (counted from 0) is 2 * (i + 1) seconds, so the waits are 2, 4, 6, 8,
\* ... and strictly increasing, and a request is only issued once every
\* request before it in the call has been followed by its wait.
C20_BackoffWaits ==
    /\ \A i \in 0..(Len(waits) - 1) : waits[i + 1] = 2 * (i + 1)
    /\ \A i \in 1..(Len(waits) - 1) : waits[i] < waits[i + 1]
    /\ pc = "fetch" => (Len(waits) = requests /\ attempt = requests)
    /\ Len(waits) <= requests

\* the fifth request of a call is about to be issued, after four waits
C20_Witness ==
    /\ pc = "fetch"
    /\ attempt = 4
    /\ requests = 4
    /\ waits = <<2, 4, 6, 8>>

====
